---- MODULE Spec2Model ----
(***************************************************************************)
(* Stochastic zonal rule engine (rule_engine_pre): the rule data model,    *)
(* the YAML rule parser, zone resolution and the grid classification run   *)
(* of the preprocessing pipeline.                                          *)
(*                                                                         *)
(* Number representation                                                   *)
(*   distances   integers, millimetres (1000.0 m = 1000000)                *)
(*   percentages integers, hundredths  (1.0 = 100, 0.99 = 99)              *)
(*   uniform draws of the generator: integers u in 0 .. RngMod-1 standing  *)
(*   for the float u / RngMod in [0, 1)                                    *)
(***************************************************************************)
EXTENDS Integers, Sequences, FiniteSets, TLC

VARIABLES
    pc,             \* position of the pipeline run
    yaml,           \* the rule source document (parsed YAML)
    template,       \* the input NPZ template
    cell_size,      \* cell size handed to modify_template, millimetres
    random_seed,    \* run_pipeline's random_seed
    rules,          \* the RuleSet returned by the parser, or None
    rng,            \* TemplateModifier.rng: the generator's state
    building_grid,  \* modify_template's working copy of building_class
    street_grid,    \* modify_template's working copy of cluster_street
    zone_grid,      \* zone labels
    center,         \* <<center_x, center_y>>, millimetres
    stats,          \* the statistics dictionary
    cursor,         \* index of the next cell of the row-major loop
    trace,          \* per visited cell: what the loop body did (history)
    output,         \* the saved NPZ files, or None
    run1,           \* results of the first of two runs with one seed
    call,           \* a direct call of a function of the data model
    ret             \* its result

vars == <<pc, yaml, template, cell_size, random_seed, rules, rng,
          building_grid, street_grid, zone_grid, center, stats, cursor,
          trace, output, run1, call, ret>>

pipevars == <<pc, yaml, template, cell_size, random_seed, rules, rng,
              building_grid, street_grid, zone_grid, center, stats, cursor,
              trace, output, run1>>

-----------------------------------------------------------------------------
(* Python values *)

None == << >>

Some(x) == <<x>>

\* dict.get(key, default)
Get(d, key, default) == IF key \in DOMAIN d THEN d[key] ELSE default

\* d[key] = d.get(key, 0) + 1
DictInc(d, key) ==
    IF key \in DOMAIN d THEN [d EXCEPT ![key] = @ + 1] ELSE d @@ (key :> 1)

\* a length given in metres, in millimetres
Metres(m) == m * 1000

-----------------------------------------------------------------------------
(* rules/rule_dataclass.py *)

\* Zone.contains
Contains_HiClosed(zone, distance) ==
    zone.min_distance <= distance /\ distance <= zone.max_distance

Contains(zone, distance) ==
    zone.min_distance <= distance /\ distance < zone.max_distance

\* RuleSet.get_zone: the for loop over self.zones, from index i on
RECURSIVE ScanZones(_, _, _)
ScanZones(zones, i, distance) ==
    IF i > Len(zones) THEN None
    ELSE IF Contains(zones[i], distance) THEN zones[i]
    ELSE ScanZones(zones, i + 1, distance)

get_zone(rs, distance) == ScanZones(rs.zones, 1, distance)

\* RuleSet.get_housing_rule / get_landuse_rule / get_household_rule:
\* the first rule of the list whose zone is zone_name
RECURSIVE ScanRules(_, _, _)
ScanRules(rule_list, i, zone_name) ==
    IF i > Len(rule_list) THEN None
    ELSE IF rule_list[i].zone = zone_name THEN rule_list[i]
    ELSE ScanRules(rule_list, i + 1, zone_name)

get_housing_rule_AnyZone(rs, zone_name) ==
    IF rs.housing_rules = << >> THEN None ELSE rs.housing_rules[1]

get_housing_rule(rs, zone_name) == ScanRules(rs.housing_rules, 1, zone_name)

get_landuse_rule(rs, zone_name) == ScanRules(rs.landuse_rules, 1, zone_name)

get_household_rule(rs, zone_name) == ScanRules(rs.household_rules, 1, zone_name)

\* A constructor returns the object, or raises ValueError
ValueError == [raised |-> "ValueError"]

Raised(x) == x = ValueError

\* HousingRule.__post_init__
HousingRule_NoLowerCheck(zone, apartment_pct, detached_pct, terraced_pct) ==
    LET total == apartment_pct + detached_pct + terraced_pct IN
    IF ~(total <= 101) THEN ValueError
    ELSE [zone |-> zone, apartment_pct |-> apartment_pct,
          detached_pct |-> detached_pct, terraced_pct |-> terraced_pct]

HousingRule(zone, apartment_pct, detached_pct, terraced_pct) ==
    LET total == apartment_pct + detached_pct + terraced_pct IN
    IF ~(99 <= total /\ total <= 101) THEN ValueError
    ELSE [zone |-> zone, apartment_pct |-> apartment_pct,
          detached_pct |-> detached_pct, terraced_pct |-> terraced_pct]

\* LanduseRule.__post_init__
LanduseRule_StrictBounds(zone, residential_pct) ==
    IF ~(0 < residential_pct /\ residential_pct < 100) THEN ValueError
    ELSE [zone |-> zone, residential_pct |-> residential_pct]

LanduseRule(zone, residential_pct) ==
    IF ~(0 <= residential_pct /\ residential_pct <= 100) THEN ValueError
    ELSE [zone |-> zone, residential_pct |-> residential_pct]

\* HouseholdRule.__post_init__
HouseholdRule(zone, single_person_pct, single_parent_pct, two_parent_pct) ==
    LET total == single_person_pct + single_parent_pct + two_parent_pct IN
    IF ~(99 <= total /\ total <= 101) THEN ValueError
    ELSE [zone |-> zone, single_person_pct |-> single_person_pct,
          single_parent_pct |-> single_parent_pct,
          two_parent_pct |-> two_parent_pct]

\* Zone(name, min_distance, max_distance): no validation
Zone(name, min_distance, max_distance) ==
    [name |-> name, min_distance |-> min_distance,
     max_distance |-> max_distance]

\* ResidentsRule and UnitSizeRule: rules/parser.py imports them from
\* rules/rule_dataclass.py and hands RuleSet their lists; they are records
\* of the data model with no invariant, so their constructors never raise
ResidentsRule(zone, residents_per_grid) ==
    [zone |-> zone, residents_per_grid |-> residents_per_grid]

UnitSizeRule(zone, min_size, max_size) ==
    [zone |-> zone, min_size |-> min_size, max_size |-> max_size]

\* RuleSet as rules/parser.py builds it and postprocessing reads it: the
\* four lists of rules/rule_dataclass.py and the two lists of residents and
\* unit-size rules
RuleSet(zones, housing_rules, landuse_rules, household_rules, residents_rules, unit_size_rules) ==
    [zones |-> zones,
     housing_rules |-> housing_rules,
     landuse_rules |-> landuse_rules,
     household_rules |-> household_rules,
     residents_rules |-> residents_rules,
     unit_size_rules |-> unit_size_rules]

-----------------------------------------------------------------------------
(* rules/parser.py *)

\* What yaml.safe_load returns: a node tagged with its Python type. The
\* fields of a rule record stay the numbers and strings they are.
Dict(d) == [type |-> "dict", value |-> d]

List(l) == [type |-> "list", value |-> l]

Str(s) == [type |-> "str", value |-> s]

Integer(n) == [type |-> "int", value |-> n]

NoneType == [type |-> "NoneType"]

\* the exceptions that leave the loaders, besides ValueError
FileNotFoundError == [raised |-> "FileNotFoundError"]

AttributeError == [raised |-> "AttributeError"]

TypeError == [raised |-> "TypeError"]

KeyError == [raised |-> "KeyError"]

Exception(x) == "raised" \in DOMAIN x

\* the keys of a dict as a list (in an order of no consequence)
RECURSIVE Keys(_)
Keys(S) ==
    IF S = {} THEN << >>
    ELSE LET k == CHOOSE x \in S : TRUE
         IN  <<Str(k)>> \o Keys(S \ {k})

\* "for item in node": the items of a list, the keys of a dict; a node that
\* is not iterable raises TypeError, written as the list <<TypeError>>
Iterate(node) ==
    CASE node.type = "list" -> node.value
      [] node.type = "dict" -> Keys(DOMAIN node.value)
      [] OTHER -> <<TypeError>>

\* "item.get(...)" raises AttributeError for an item that is no dict; an
\* exception raised earlier stays the exception
GetFails(item) == Exception(item) \/ item.type # "dict"

GetError(item) == IF Exception(item) THEN item ELSE AttributeError

\* A list comprehension of constructor calls is modelled by the list of
\* their results; the first exception among them is the one that leaves
\* the comprehension, so that no list is built
Raises(objs) == \E i \in 1..Len(objs) : Exception(objs[i])

FirstRaised(objs) ==
    objs[CHOOSE i \in 1..Len(objs) :
            /\ Exception(objs[i])
            /\ \A j \in 1..(i - 1) : ~Exception(objs[j])]

\* a comprehension that leaves out the records failing validation
RECURSIVE DropRaised(_)
DropRaised(objs) ==
    IF objs = << >> THEN << >>
    ELSE IF Exception(Head(objs)) THEN DropRaised(Tail(objs))
    ELSE <<Head(objs)>> \o DropRaised(Tail(objs))

_parse_zones(zones_data) ==
    LET items == Iterate(zones_data)
    IN  [i \in 1..Len(items) |->
            IF GetFails(items[i]) THEN GetError(items[i])
            ELSE Zone(Get(items[i].value, "name", ""),
                      Get(items[i].value, "min_distance", 0),
                      Get(items[i].value, "max_distance", 0))]

_parse_housing_rules_Lenient(rules_data) ==
    LET items == Iterate(rules_data)
    IN  DropRaised([i \in 1..Len(items) |->
            IF GetFails(items[i]) THEN GetError(items[i])
            ELSE HousingRule(Get(items[i].value, "zone", ""),
                             Get(items[i].value, "apartment_pct", 0),
                             Get(items[i].value, "detached_pct", 0),
                             Get(items[i].value, "terraced_pct", 0))])

_parse_housing_rules(rules_data) ==
    LET items == Iterate(rules_data)
    IN  [i \in 1..Len(items) |->
            IF GetFails(items[i]) THEN GetError(items[i])
            ELSE HousingRule(Get(items[i].value, "zone", ""),
                             Get(items[i].value, "apartment_pct", 0),
                             Get(items[i].value, "detached_pct", 0),
                             Get(items[i].value, "terraced_pct", 0))]

_parse_landuse_rules(rules_data) ==
    LET items == Iterate(rules_data)
    IN  [i \in 1..Len(items) |->
            IF GetFails(items[i]) THEN GetError(items[i])
            ELSE LanduseRule(Get(items[i].value, "zone", ""),
                             Get(items[i].value, "residential_pct", 0))]

_parse_household_rules(rules_data) ==
    LET items == Iterate(rules_data)
    IN  [i \in 1..Len(items) |->
            IF GetFails(items[i]) THEN GetError(items[i])
            ELSE HouseholdRule(Get(items[i].value, "zone", ""),
                               Get(items[i].value, "single_person_pct", 0),
                               Get(items[i].value, "single_parent_pct", 0),
                               Get(items[i].value, "two_parent_pct", 0))]

_parse_residents_rules(rules_data) ==
    LET items == Iterate(rules_data)
    IN  [i \in 1..Len(items) |->
            IF GetFails(items[i]) THEN GetError(items[i])
            ELSE ResidentsRule(Get(items[i].value, "zone", ""),
                               Get(items[i].value, "residents_per_grid", 0))]

_parse_unit_size_rules(rules_data) ==
    LET items == Iterate(rules_data)
    IN  [i \in 1..Len(items) |->
            IF GetFails(items[i]) THEN GetError(items[i])
            ELSE UnitSizeRule(Get(items[i].value, "zone", ""),
                              Get(items[i].value, "min_size", 0),
                              Get(items[i].value, "max_size", 0))]

\* the arguments of RuleSet(...) are evaluated in the order written: the
\* exception of the first list that raises one, None when none does
FirstFailure(lists) ==
    IF \A k \in 1..Len(lists) : ~Raises(lists[k]) THEN None
    ELSE FirstRaised(lists[CHOOSE k \in 1..Len(lists) :
                              /\ Raises(lists[k])
                              /\ \A j \in 1..(k - 1) : ~Raises(lists[j])])

\* RuleParser.load_from_yaml: the RuleSet, or the exception that leaves it
load_from_yaml_SharedKey(file) ==
    IF ~file.exists THEN FileNotFoundError
    ELSE
    LET data == IF file.data.type = "NoneType" THEN Dict(<< >>) ELSE file.data
    IN
    IF data.type # "dict" THEN AttributeError
    ELSE
    LET zones == _parse_zones(Get(data.value, "zones", List(<< >>)))
        housing_rules ==
            _parse_housing_rules(Get(data.value, "housing_rules", List(<< >>)))
        landuse_rules ==
            _parse_landuse_rules(Get(data.value, "landuse_rules", List(<< >>)))
        household_rules ==
            _parse_household_rules(
                Get(data.value, "household_rules", List(<< >>)))
        residents_rules ==
            _parse_residents_rules(
                Get(data.value, "residents_rules", List(<< >>)))
        unit_size_rules ==
            _parse_unit_size_rules(
                Get(data.value, "residents_rules", List(<< >>)))
        failure == FirstFailure(<<zones, housing_rules, landuse_rules,
                                  household_rules, residents_rules,
                                  unit_size_rules>>)
    IN  IF failure # None THEN failure
        ELSE RuleSet(zones, housing_rules, landuse_rules, household_rules,
                     residents_rules, unit_size_rules)

load_from_yaml(file) ==
    IF ~file.exists THEN FileNotFoundError
    ELSE
    LET data == IF file.data.type = "NoneType" THEN Dict(<< >>) ELSE file.data
    IN
    IF data.type # "dict" THEN AttributeError
    ELSE
    LET zones == _parse_zones(Get(data.value, "zones", List(<< >>)))
        housing_rules ==
            _parse_housing_rules(Get(data.value, "housing_rules", List(<< >>)))
        landuse_rules ==
            _parse_landuse_rules(Get(data.value, "landuse_rules", List(<< >>)))
        household_rules ==
            _parse_household_rules(
                Get(data.value, "household_rules", List(<< >>)))
        residents_rules ==
            _parse_residents_rules(
                Get(data.value, "residents_rules", List(<< >>)))
        unit_size_rules ==
            _parse_unit_size_rules(
                Get(data.value, "unit_size_rules", List(<< >>)))
        failure == FirstFailure(<<zones, housing_rules, landuse_rules,
                                  household_rules, residents_rules,
                                  unit_size_rules>>)
    IN  IF failure # None THEN failure
        ELSE RuleSet(zones, housing_rules, landuse_rules, household_rules,
                     residents_rules, unit_size_rules)

-----------------------------------------------------------------------------
(* rule_dataclass.py: the loader of the first version *)

\* "item['zone']", "item['apartment_pct']", ...: None when every key is
\* there, KeyError for a dict that lacks one, TypeError for an item that is
\* no dict
SubscriptError(item, keys) ==
    IF Exception(item) THEN item
    ELSE IF item.type # "dict" THEN TypeError
    ELSE IF \A k \in keys : k \in DOMAIN item.value THEN None
    ELSE KeyError

\* load_rules_from_yaml: the four loops append one object per record; the
\* first exception leaves the function
load_rules_from_yaml(file) ==
    IF ~file.exists THEN FileNotFoundError
    ELSE IF file.data.type # "dict" THEN AttributeError
    ELSE
    LET data == file.data.value
        zone_items == Iterate(Get(data, "zones", List(<< >>)))
        zones ==
            [i \in 1..Len(zone_items) |->
                LET zone_data == zone_items[i]
                    error == SubscriptError(zone_data,
                                 {"name", "min_distance", "max_distance"})
                IN  IF error # None THEN error
                    ELSE Zone(zone_data.value["name"],
                              zone_data.value["min_distance"],
                              zone_data.value["max_distance"])]
        housing_items == Iterate(Get(data, "housing_rules", List(<< >>)))
        housing_rules ==
            [i \in 1..Len(housing_items) |->
                LET rule_data == housing_items[i]
                    error == SubscriptError(rule_data,
                                 {"zone", "apartment_pct", "detached_pct",
                                  "terraced_pct"})
                IN  IF error # None THEN error
                    ELSE HousingRule(rule_data.value["zone"],
                                     rule_data.value["apartment_pct"],
                                     rule_data.value["detached_pct"],
                                     rule_data.value["terraced_pct"])]
        landuse_items == Iterate(Get(data, "landuse_rules", List(<< >>)))
        landuse_rules ==
            [i \in 1..Len(landuse_items) |->
                LET rule_data == landuse_items[i]
                    error == SubscriptError(rule_data,
                                 {"zone", "residential_pct"})
                IN  IF error # None THEN error
                    ELSE LanduseRule(rule_data.value["zone"],
                                     rule_data.value["residential_pct"])]
        household_items == Iterate(Get(data, "household_rules", List(<< >>)))
        household_rules ==
            [i \in 1..Len(household_items) |->
                LET rule_data == household_items[i]
                    error == SubscriptError(rule_data,
                                 {"zone", "single_person_pct",
                                  "single_parent_pct", "two_parent_pct"})
                IN  IF error # None THEN error
                    ELSE HouseholdRule(rule_data.value["zone"],
                                       rule_data.value["single_person_pct"],
                                       rule_data.value["single_parent_pct"],
                                       rule_data.value["two_parent_pct"])]
        failure == FirstFailure(<<zones, housing_rules, landuse_rules,
                                  household_rules>>)
    IN  IF failure # None THEN failure
        ELSE [zones |-> zones,
              housing_rules |-> housing_rules,
              landuse_rules |-> landuse_rules,
              household_rules |-> household_rules]

-----------------------------------------------------------------------------
(* numpy: arrays and the random generator *)

\* a 2-D array: its shape and its cells, indexed <<row, col>> from 0
Cells(rows, cols) == (0..(rows - 1)) \X (0..(cols - 1))

Array(rows, cols, data) == [shape |-> <<rows, cols>>, data |-> data]

\* np.full(shape, fill)
Full(shape, fill) ==
    [shape |-> shape,
     data |-> [cell \in Cells(shape[1], shape[2]) |-> fill]]

\* a[row, col] = value
SetCell(a, row, col, value) == [a EXCEPT !.data[<<row, col>>] = value]

\* np.where(a == value): the matching cells in row-major order
RowMajorBefore(c1, c2) == c1[1] < c2[1] \/ (c1[1] = c2[1] /\ c1[2] <= c2[2])

RECURSIVE InRowMajorOrder(_)
InRowMajorOrder(S) ==
    IF S = {} THEN << >>
    ELSE LET first == CHOOSE c \in S : \A o \in S : RowMajorBefore(c, o)
         IN  <<first>> \o InRowMajorOrder(S \ {first})

Where(a, value) == InRowMajorOrder({c \in DOMAIN a.data : a.data[c] = value})

\* floor of the square root, by bisection between lo and hi
RECURSIVE ISqrtBetween(_, _, _)
ISqrtBetween(n, lo, hi) ==
    IF hi - lo <= 1 THEN lo
    ELSE LET mid == (lo + hi) \div 2
         IN  IF mid * mid <= n THEN ISqrtBetween(n, mid, hi)
             ELSE ISqrtBetween(n, lo, mid)

ISqrt(n) == ISqrtBetween(n, 0, (IF n < 46340 THEN n ELSE 46340) + 1)

RngMod == 8         \* number of values a uniform draw can take

\* np.random.default_rng(seed): the generator's initial state is a function
\* of the seed; with seed None it is fresh entropy of the operating system.
\* The bit generator is modelled by a congruential stream over RngMod
\* states: what is kept of it is that the stream is a function of the
\* initial state, that every draw advances it by one step, and that a
\* uniform value lies in [0, 1). draws counts the draws taken (history).
DefaultRng_Unseeded(seed) ==
    {[state |-> s, draws |-> 0] : s \in 0..(RngMod - 1)}

DefaultRng(seed) ==
    IF seed = None
    THEN {[state |-> s, draws |-> 0] : s \in 0..(RngMod - 1)}
    ELSE {[state |-> (3 * seed[1] + 2) % RngMod, draws |-> 0]}

\* rng.random(): the next uniform value u (standing for u / RngMod), and
\* the generator advanced by one step
Random(g) ==
    [value |-> g.state,
     rng |-> [state |-> (5 * g.state + 3) % RngMod, draws |-> g.draws + 1]]

\* rng.choice(a, p = p) for three alternatives: ValueError when a
\* probability is negative or the probabilities do not sum to 1 (numpy's
\* tolerance is 1.5e-8, below one hundredth); else one uniform draw u and
\* the alternative at cdf.searchsorted(u, side = 'right'), cdf the
\* cumulative sums of p divided by their last
Choice_SideLeft(g, a, p) ==
    IF \E i \in 1..3 : p[i] < 0 THEN ValueError
    ELSE IF p[1] + p[2] + p[3] # 100 THEN ValueError
    ELSE LET r == Random(g)
             cdf == <<p[1], p[1] + p[2], p[1] + p[2] + p[3]>>
             idx == Cardinality({i \in 1..3 :
                                     cdf[i] * RngMod < r.value * cdf[3]})
         IN  [value |-> a[idx + 1], rng |-> r.rng]

Choice(g, a, p) ==
    IF \E i \in 1..3 : p[i] < 0 THEN ValueError
    ELSE IF p[1] + p[2] + p[3] # 100 THEN ValueError
    ELSE LET r == Random(g)
             cdf == <<p[1], p[1] + p[2], p[1] + p[2] + p[3]>>
             idx == Cardinality({i \in 1..3 :
                                     cdf[i] * RngMod <= r.value * cdf[3]})
         IN  [value |-> a[idx + 1], rng |-> r.rng]

-----------------------------------------------------------------------------
(* preprocessing/template_modifier.py *)

BUILDING_CLASSES ==
    [apartment |-> 14, detached |-> 17, terraced |-> 22, none |-> 99]

ZONE_IDS ==
    ("0_1km" :> 0) @@ ("1_2km" :> 1) @@ ("2_5km" :> 2) @@ ("unknown" :> 99)

\* TemplateModifier._sample_building_type
_sample_building_type(g, housing_rule) ==
    LET types == <<"apartment", "detached", "terraced">>
        probabilities == <<housing_rule.apartment_pct,
                           housing_rule.detached_pct,
                           housing_rule.terraced_pct>>
    IN  Choice(g, types, probabilities)

\* modify_template, step 2: the position of the city center
CityCenter_RowForX(city_center_grid, rows, cols, size) ==
    LET marked == Where(city_center_grid, 1)
    IN  IF Len(marked) > 0
        THEN <<marked[1][1] * size, marked[1][2] * size>>
        ELSE <<(cols * size) \div 2, (rows * size) \div 2>>

CityCenter(city_center_grid, rows, cols, size) ==
    LET marked == Where(city_center_grid, 1)
    IN  IF Len(marked) > 0
        THEN <<marked[1][2] * size, marked[1][1] * size>>
        ELSE <<(cols * size) \div 2, (rows * size) \div 2>>

\* np.sqrt((x - center_x)**2 + (y - center_y)**2) for the cell (row, col),
\* rounded down to whole metres (x, y and the center are whole metres): the
\* comparisons with zone bounds that are whole metres come out as for the
\* float
CellDistance(row, col, size, c) ==
    LET x == col * size
        y == row * size
        dx == (x - c[1]) \div 1000
        dy == (y - c[2]) \div 1000
    IN  Metres(ISqrt(dx * dx + dy * dy))

\* modify_template, "update stats"
UpdateStats_Overwrite(st, zone_name, building_type) ==
    [st EXCEPT
        !.by_zone = DictInc(@, zone_name),
        !.by_type = DictInc(@, building_type),
        !.by_zone_and_type = (zone_name :> (building_type :> 1)) @@ @]

UpdateStats(st, zone_name, building_type) ==
    LET per_zone == Get(st.by_zone_and_type, zone_name, << >>)
    IN  [st EXCEPT
            !.by_zone = DictInc(@, zone_name),
            !.by_type = DictInc(@, building_type),
            !.by_zone_and_type =
                (zone_name :> DictInc(per_zone, building_type)) @@ @]

-----------------------------------------------------------------------------
(* Inputs of a pipeline run *)

MaxRows == 2        \* largest number of grid rows

MaxCols == 2        \* largest number of grid columns

MaxSeed == 3        \* seeds are 0..MaxSeed (random.randint(0, 1000000))

\* the three zones of rule.yaml's layout, and one overlapping the first two
Zone0 == Zone("0_1km", 0, Metres(1000))

Zone1 == Zone("1_2km", Metres(1000), Metres(2000))

Zone2 == Zone("2_5km", Metres(2000), Metres(5000))

ZoneWide == Zone("wide", 0, Metres(2000))

\* raw records of the rule document
RawHousing(zone, t) ==
    [zone |-> zone, apartment_pct |-> t[1], detached_pct |-> t[2],
     terraced_pct |-> t[3]]

RawLanduse(zone, r) == [zone |-> zone, residential_pct |-> r]

RawHousehold(zone, t) ==
    [zone |-> zone, single_person_pct |-> t[1], single_parent_pct |-> t[2],
     two_parent_pct |-> t[3]]

\* the rule file that holds the YAML text of a document of lists of records
RuleFile(document) ==
    [exists |-> TRUE,
     data |-> Dict([key \in DOMAIN document |->
                      List([i \in 1..Len(document[key]) |->
                              Dict(document[key][i])])])]

\* documents with the single zone "z" = [0, 1000): no housing rule or one
\* (valid, or invalid: sum 0.9), no landuse rule or one (valid, or invalid)
DocumentsZ ==
    {[zones |-> <<Zone("z", 0, Metres(1000))>>,
      housing_rules |-> h,
      landuse_rules |-> l] :
        h \in {<< >>} \cup
              {<<RawHousing("z", t)>> :
                 t \in {<<100, 0, 0>>, <<50, 30, 20>>, <<0, 50, 50>>,
                        <<50, 30, 10>>, <<50, 30, 19>>, <<120, 0 - 20, 0>>}},
        l \in {<< >>} \cup
              {<<RawLanduse("z", r)>> : r \in {0, 50, 100, 150}}}

\* documents with the zones "0_1km" = [0, 1000) and "1_2km" = [1000, 2000)
DocumentsKm ==
    {[zones |-> <<Zone0, Zone1>>,
      housing_rules |-> h,
      landuse_rules |-> l,
      household_rules |-> hh] :
        h \in {<<RawHousing("0_1km", t1), RawHousing("1_2km", t2)>> :
                 t1 \in {<<50, 30, 20>>, <<0, 50, 50>>},
                 t2 \in {<<100, 0, 0>>, <<50, 30, 10>>}}
              \cup {<<RawHousing("1_2km", <<100, 0, 0>>)>>},
        l \in {<<RawLanduse("0_1km", 100), RawLanduse("1_2km", 50)>>,
               <<RawLanduse("0_1km", 50)>>,
               <<RawLanduse("0_1km", 0), RawLanduse("1_2km", 0 - 10)>>},
        hh \in {<< >>,
                <<RawHousehold("0_1km", <<40, 20, 40>>),
                  RawHousehold("1_2km", <<40, 20, 20>>)>>}}

Documents == DocumentsZ \cup DocumentsKm

\* city_center grids: no cell marked, one cell marked, every cell marked,
\* the cells next to the first one marked
CenterGrids(rows, cols) ==
    {Array(rows, cols, [c \in Cells(rows, cols) |-> 0]),
     Array(rows, cols, [c \in Cells(rows, cols) |-> 1]),
     Array(rows, cols, [c \in Cells(rows, cols) |->
                          IF c[1] + c[2] = 1 THEN 1 ELSE 0])}
    \cup {Array(rows, cols, [c \in Cells(rows, cols) |->
                               IF c = m THEN 1 ELSE 0]) :
             m \in Cells(rows, cols)}

\* input templates: building classes 0, 5 and 14, streets in a checkerboard
Templates ==
    UNION {
        {[building_class |->
              Array(rows, cols,
                    [c \in Cells(rows, cols) |->
                        <<0, 5, 14>>[((c[1] * cols + c[2]) % 3) + 1]]),
          cluster_street |->
              Array(rows, cols,
                    [c \in Cells(rows, cols) |-> (c[1] + c[2]) % 2]),
          city_center |-> cc] : cc \in CenterGrids(rows, cols)} :
        rows \in 1..MaxRows, cols \in 1..MaxCols}

\* cell sizes: 100 m (run_pipeline's) and 1000 m
CellSizes == {Metres(100), Metres(1000)}

-----------------------------------------------------------------------------
(* The pipeline run: run_pipeline.main, preprocessing *)

Init ==
    /\ pc = "main"
    /\ yaml \in Documents
    /\ template \in Templates
    /\ cell_size \in CellSizes
    /\ random_seed = None
    /\ rules = None /\ rng = None
    /\ building_grid = None /\ street_grid = None /\ zone_grid = None
    /\ center = None /\ stats = None /\ cursor = None /\ trace = None
    /\ output = None /\ run1 = None
    /\ call = None /\ ret = None

\* run_pipeline.main: random_seed is None, so one seed is generated
GenerateSeed ==
    /\ pc = "main"
    /\ \E s \in 0..MaxSeed : random_seed' = Some(s)
    /\ pc' = "load_rules"
    /\ UNCHANGED <<yaml, template, cell_size, rules, rng, building_grid,
                   street_grid, zone_grid, center, stats, cursor, trace,
                   output, run1, call, ret>>

\* modify_template_with_stats, step 1: parser.load_from_yaml(rules_yaml);
\* an exception leaves the function
LoadRules ==
    /\ pc = "load_rules"
    /\ LET loaded == load_from_yaml(RuleFile(yaml))
       IN  IF Exception(loaded)
           THEN pc' = loaded.raised \o " in load_rules" /\ UNCHANGED rules
           ELSE pc' = "create_modifier" /\ rules' = loaded
    /\ UNCHANGED <<yaml, template, cell_size, random_seed, rng,
                   building_grid, street_grid, zone_grid, center, stats,
                   cursor, trace, output, run1, call, ret>>

\* modify_template_with_stats, step 2: TemplateModifier(rules, random_seed)
CreateModifier ==
    /\ pc = "create_modifier"
    /\ rng' \in DefaultRng(random_seed)
    /\ pc' = "modify_template"
    /\ UNCHANGED <<yaml, template, cell_size, random_seed, rules,
                   building_grid, street_grid, zone_grid, center, stats,
                   cursor, trace, output, run1, call, ret>>

\* modify_template, steps 1 and 2 and the empty statistics
LoadTemplate ==
    /\ pc = "modify_template"
    /\ LET rows == template.building_class.shape[1]
           cols == template.building_class.shape[2]
       IN  /\ building_grid' = template.building_class
           /\ street_grid' = template.cluster_street
           /\ zone_grid' = Full(template.building_class.shape, 99)
           /\ center' = CityCenter(template.city_center, rows, cols, cell_size)
           /\ stats' = [total_cells |-> rows * cols,
                        by_zone |-> << >>,
                        by_type |-> << >>,
                        by_zone_and_type |-> << >>]
    /\ cursor' = 0
    /\ trace' = << >>
    /\ pc' = "loop"
    /\ UNCHANGED <<yaml, template, cell_size, random_seed, rules, rng,
                   output, run1, call, ret>>

Rows == building_grid.shape[1]

Cols == building_grid.shape[2]

\* What one pass of the loop body leaves behind: the new values of
\* building_grid, zone_grid, rng and stats, the building_type it counted
\* (None when it left by continue) and whether it raised ValueError
Pass(bg, zg, g, st, building_type, raised) ==
    [building_grid |-> bg, zone_grid |-> zg, rng |-> g, stats |-> st,
     building_type |-> building_type, raised |-> raised]

\* "if zone is None": class none, label unknown, continue
NoZone_Counted(row, col) ==
    Pass(SetCell(building_grid, row, col, BUILDING_CLASSES["none"]),
         SetCell(zone_grid, row, col, ZONE_IDS["unknown"]),
         rng, UpdateStats(stats, "unknown", "none"), None, FALSE)

NoZone(row, col) ==
    Pass(SetCell(building_grid, row, col, BUILDING_CLASSES["none"]),
         SetCell(zone_grid, row, col, ZONE_IDS["unknown"]),
         rng, stats, None, FALSE)

\* "zone_grid[row, col] = ZONE_IDS.get(zone.name, 99)"
Labelled(row, col, zone) ==
    SetCell(zone_grid, row, col, Get(ZONE_IDS, zone.name, 99))

\* "if housing_rule is None" / "if landuse_rule is None": class none,
\* continue
NoRule_Drawn(row, col, zone) ==
    Pass(SetCell(building_grid, row, col, BUILDING_CLASSES["none"]),
         Labelled(row, col, zone), Random(rng).rng,
         UpdateStats(stats, zone.name, "none"), None, FALSE)

NoRule(row, col, zone) ==
    Pass(SetCell(building_grid, row, col, BUILDING_CLASSES["none"]),
         Labelled(row, col, zone), rng, stats, None, FALSE)

\* "self.rng.random() < landuse_rule.residential_pct" for the draw u
IsResidential_Inclusive(u, landuse_rule) ==
    u * 100 <= landuse_rule.residential_pct * RngMod

IsResidential(u, landuse_rule) ==
    u * 100 < landuse_rule.residential_pct * RngMod

\* "BUILDING_CLASSES.get(building_type, 99)"
ClassId_Default(building_type) ==
    IF building_type = "apartment" THEN BUILDING_CLASSES[building_type]
    ELSE 99

ClassId(building_type) == Get(BUILDING_CLASSES, building_type, 99)

\* "if not is_residential": class none, counted as type none
NonResidential(row, col, zone, g) ==
    Pass(SetCell(building_grid, row, col, BUILDING_CLASSES["none"]),
         Labelled(row, col, zone), g,
         UpdateStats(stats, zone.name, "none"), Some("none"), FALSE)

\* "else": the sampled type's class, counted as that type; the ValueError
\* of rng.choice leaves modify_template
Residential(row, col, zone, g, housing_rule) ==
    LET sampled == _sample_building_type(g, housing_rule)
    IN  IF Raised(sampled)
        THEN Pass(building_grid, Labelled(row, col, zone), g, stats,
                  None, TRUE)
        ELSE Pass(SetCell(building_grid, row, col, ClassId(sampled.value)),
                  Labelled(row, col, zone), sampled.rng,
                  UpdateStats(stats, zone.name, sampled.value),
                  Some(sampled.value), FALSE)

\* the body of the loop for the cell (row, col)
LoopBody(row, col) ==
    LET distance == CellDistance(row, col, cell_size, center)
        zone == get_zone(rules, distance)
    IN
    IF zone = None THEN NoZone(row, col)
    ELSE
    LET housing_rule == get_housing_rule(rules, zone.name)
        landuse_rule == get_landuse_rule(rules, zone.name)
    IN
    IF housing_rule = None THEN NoRule(row, col, zone)
    ELSE IF landuse_rule = None THEN NoRule(row, col, zone)
    ELSE
    LET u == Random(rng)
    IN  IF ~IsResidential(u.value, landuse_rule)
        THEN NonResidential(row, col, zone, u.rng)
        ELSE Residential(row, col, zone, u.rng, housing_rule)

\* modify_template, step 3: one pass of the loop over the cells
ClassifyCell_ConsumesRule ==
    /\ pc = "loop"
    /\ cursor < Rows * Cols
    /\ LET row == cursor \div Cols
           col == cursor % Cols
           body == LoopBody(row, col)
       IN  /\ building_grid' = body.building_grid
           /\ zone_grid' = body.zone_grid
           /\ rng' = body.rng
           /\ stats' = body.stats
           /\ rules' = IF body.building_type = None THEN rules
                       ELSE [rules EXCEPT !.housing_rules = Tail(@)]
           /\ IF body.raised
              THEN pc' = "ValueError in modify_template"
                   /\ UNCHANGED <<cursor, trace>>
              ELSE /\ pc' = pc
                   /\ cursor' = cursor + 1
                   /\ trace' = Append(trace,
                          [row |-> row, col |-> col,
                           building_type |-> body.building_type])
    /\ UNCHANGED <<yaml, template, cell_size, random_seed,
                   street_grid, center, output, run1, call, ret>>

ClassifyCell ==
    /\ pc = "loop"
    /\ cursor < Rows * Cols
    /\ LET row == cursor \div Cols
           col == cursor % Cols
           body == LoopBody(row, col)
       IN  /\ building_grid' = body.building_grid
           /\ zone_grid' = body.zone_grid
           /\ rng' = body.rng
           /\ stats' = body.stats
           /\ IF body.raised
              THEN pc' = "ValueError in modify_template"
                   /\ UNCHANGED <<cursor, trace>>
              ELSE /\ pc' = pc
                   /\ cursor' = cursor + 1
                   /\ trace' = Append(trace,
                          [row |-> row, col |-> col,
                           building_type |-> body.building_type])
    /\ UNCHANGED <<yaml, template, cell_size, random_seed, rules,
                   street_grid, center, output, run1, call, ret>>

\* modify_template, steps 4 and 5: the two np.savez calls
SaveTemplate_StreetFromBuilding ==
    /\ pc = "loop"
    /\ cursor = Rows * Cols
    /\ output' = [template |-> [building_class |-> building_grid,
                                cluster_street |-> building_grid,
                                city_center |-> template.city_center],
                  zones |-> [zone_grid |-> zone_grid,
                             city_center |-> template.city_center],
                  stats |-> stats]
    /\ pc' = "done"
    /\ UNCHANGED <<yaml, template, cell_size, random_seed, rules, rng,
                   building_grid, street_grid, zone_grid, center, stats,
                   cursor, trace, run1, call, ret>>

SaveTemplate ==
    /\ pc = "loop"
    /\ cursor = Rows * Cols
    /\ output' = [template |-> [building_class |-> building_grid,
                                cluster_street |-> street_grid,
                                city_center |-> template.city_center],
                  zones |-> [zone_grid |-> zone_grid,
                             city_center |-> template.city_center],
                  stats |-> stats]
    /\ pc' = "done"
    /\ UNCHANGED <<yaml, template, cell_size, random_seed, rules, rng,
                   building_grid, street_grid, zone_grid, center, stats,
                   cursor, trace, run1, call, ret>>

Next ==
    \/ GenerateSeed
    \/ LoadRules
    \/ CreateModifier
    \/ LoadTemplate
    \/ ClassifyCell
    \/ SaveTemplate

Spec == Init /\ [][Next]_vars

\* A second preprocessing run of the same inputs with the same seed, after
\* the first has ended: modify_template_with_stats called again
Rerun ==
    /\ pc = "done"
    /\ run1 = None
    /\ run1' = output
    /\ pc' = "load_rules"
    /\ rules' = None /\ rng' = None
    /\ building_grid' = None /\ street_grid' = None /\ zone_grid' = None
    /\ center' = None /\ stats' = None /\ cursor' = None /\ trace' = None
    /\ output' = None
    /\ UNCHANGED <<yaml, template, cell_size, random_seed, call, ret>>

NextRepeat == Next \/ Rerun

SpecRepeat == Init /\ [][NextRepeat]_vars

-----------------------------------------------------------------------------
(* postprocessing: BuildingProcessor, the classification of one feature.
   postprocessing/main.py calls BuildingProcessor(rules, random_seed) and
   process_buildings; the class itself is given by the description of the
   feature classification engine, which the operators below follow step by
   step. *)

get_residents_rule(rs, zone_name) == ScanRules(rs.residents_rules, 1, zone_name)

get_unit_size_rule(rs, zone_name) == ScanRules(rs.unit_size_rules, 1, zone_name)

\* the area of the nominal cell, in square metres (cell_size = 100.0)
CellAreaReference == 100 * 100

\* residents of one household of each type (the occupancy table)
Occupancy == [single_person |-> 1, single_parent |-> 2, two_parent |-> 4]

\* the record of a feature that is not residential
NonResidentialFeature(zone_name) ==
    [zone |-> zone_name, building_type |-> "none", household_type |-> None,
     unit_size |-> 0, household_count |-> 0, resident_count |-> 0]

\* steps 3 to 6 for a residential feature of the sampled building type
ResidentialFeature(rs, zone, building_type, footprint_area, g) ==
    LET household_rule == get_household_rule(rs, zone.name)
        residents_rule == get_residents_rule(rs, zone.name)
        unit_size_rule == get_unit_size_rule(rs, zone.name)
        household ==
            IF household_rule = None THEN [value |-> None, rng |-> g]
            ELSE LET drawn ==
                         Choice(g, <<"single_person", "single_parent",
                                     "two_parent">>,
                                <<household_rule.single_person_pct,
                                  household_rule.single_parent_pct,
                                  household_rule.two_parent_pct>>)
                 IN  IF Raised(drawn) THEN [value |-> None, rng |-> None]
                     ELSE [value |-> Some(drawn.value), rng |-> drawn.rng]
        g2 == IF household.rng = None THEN g ELSE household.rng
        resident_count ==
            IF residents_rule = None THEN 0
            ELSE (residents_rule.residents_per_grid * footprint_area)
                    \div CellAreaReference
        size_draw == Random(g2)
        unit_size ==
            IF unit_size_rule = None THEN 0
            ELSE unit_size_rule.min_size
                    + ((unit_size_rule.max_size - unit_size_rule.min_size)
                          * size_draw.value) \div RngMod
        household_count ==
            IF household.value = None THEN 0
            ELSE (resident_count + Occupancy[household.value[1]] - 1)
                    \div Occupancy[household.value[1]]
    IN  IF household.rng = None THEN ValueError
        ELSE [record |-> [zone |-> Some(zone.name),
                          building_type |-> building_type,
                          household_type |-> household.value,
                          unit_size |-> unit_size,
                          household_count |-> household_count,
                          resident_count |-> resident_count],
              rng |-> IF unit_size_rule = None THEN g2 ELSE size_draw.rng]

\* classify_feature(ruleset, distance_to_center, footprint_area, rng): the
\* record of the feature and the generator after its draws
classify_feature(rs, distance, footprint_area, g) ==
    LET zone == get_zone(rs, distance)
    IN
    IF zone = None THEN [record |-> NonResidentialFeature(None), rng |-> g]
    ELSE
    LET housing_rule == get_housing_rule(rs, zone.name)
        landuse_rule == get_landuse_rule(rs, zone.name)
    IN
    IF housing_rule = None \/ landuse_rule = None
    THEN [record |-> NonResidentialFeature(Some(zone.name)), rng |-> g]
    ELSE
    LET u == Random(g)
    IN  IF ~IsResidential(u.value, landuse_rule)
        THEN [record |-> NonResidentialFeature(Some(zone.name)),
              rng |-> u.rng]
        ELSE LET sampled == _sample_building_type(u.rng, housing_rule)
             IN  IF Raised(sampled) THEN ValueError
                 ELSE ResidentialFeature(rs, zone, sampled.value,
                                         footprint_area, sampled.rng)

-----------------------------------------------------------------------------
(* Direct calls of the data model: get_zone and the rule constructors *)

MaxZones == 3       \* longest zone list handed to get_zone

ZonePool == {Zone0, Zone1, Zone2, ZoneWide}

ZoneLists == UNION {[1..n -> ZonePool] : n \in 0..MaxZones}

\* distances in millimetres: below, on and just under every zone bound
Distances ==
    {0 - Metres(1), 0, Metres(1000) - 1, Metres(1000), Metres(2000) - 1,
     Metres(2000), Metres(5000) - 1, Metres(5000), Metres(6000)}

\* percentages in hundredths, some outside [0, 1]
PctValues == {0 - 20, 0, 10, 19, 20, 21, 22, 30, 50, 100, 101, 120}

PipelineIdle ==
    /\ pc = "idle"
    /\ yaml = None /\ template = None /\ cell_size = None
    /\ random_seed = None /\ rules = None /\ rng = None
    /\ building_grid = None /\ street_grid = None /\ zone_grid = None
    /\ center = None /\ stats = None /\ cursor = None /\ trace = None
    /\ output = None /\ run1 = None

InitZone ==
    /\ PipelineIdle
    /\ call \in {[op |-> "get_zone", zones |-> zs, distance |-> d] :
                    zs \in ZoneLists, d \in Distances}
    /\ ret = None

\* ruleset.get_zone(distance) on a RuleSet holding call.zones
CallGetZone ==
    /\ call.op = "get_zone" /\ ret = None
    /\ ret' = Some(get_zone([zones |-> call.zones], call.distance))
    /\ UNCHANGED <<pipevars, call>>

NextZone == CallGetZone

SpecZone == InitZone /\ [][NextZone]_vars

InitCtor ==
    /\ PipelineIdle
    /\ call \in
         {[op |-> o, zone |-> "z", pcts |-> <<a, b, c>>] :
            o \in {"HousingRule", "HouseholdRule"},
            a \in PctValues, b \in PctValues, c \in PctValues}
         \cup
         {[op |-> "LanduseRule", zone |-> "z", pcts |-> <<a>>] :
            a \in PctValues \cup {0 - 1, 1, 99}}
    /\ ret = None

CallHousingRule ==
    /\ call.op = "HousingRule" /\ ret = None
    /\ ret' = Some(HousingRule(call.zone, call.pcts[1], call.pcts[2],
                               call.pcts[3]))
    /\ UNCHANGED <<pipevars, call>>

CallHouseholdRule ==
    /\ call.op = "HouseholdRule" /\ ret = None
    /\ ret' = Some(HouseholdRule(call.zone, call.pcts[1], call.pcts[2],
                                 call.pcts[3]))
    /\ UNCHANGED <<pipevars, call>>

CallLanduseRule ==
    /\ call.op = "LanduseRule" /\ ret = None
    /\ ret' = Some(LanduseRule(call.zone, call.pcts[1]))
    /\ UNCHANGED <<pipevars, call>>

NextCtor == CallHousingRule \/ CallHouseholdRule \/ CallLanduseRule

SpecCtor == InitCtor /\ [][NextCtor]_vars

-----------------------------------------------------------------------------
(* Direct calls of the two loaders *)

\* what a section of the rule file may hold: a list of records (complete,
\* or lacking fields), or something that is no list of records
ZoneSections ==
    {List(<< >>),
     List(<<Dict(Zone0)>>),
     List(<<Dict(Zone1), Dict(Zone0)>>),
     List(<<Dict([name |-> "0_1km"])>>),
     List(<<Dict([min_distance |-> 0, max_distance |-> Metres(1000)])>>),
     NoneType,
     Dict(Zone0)}

HousingSections ==
    {List(<<Dict(RawHousing("1_2km", <<50, 30, 20>>)),
            Dict(RawHousing("0_1km", <<0, 50, 50>>))>>),
     List(<<Dict([zone |-> "z"])>>),
     List(<<Dict([zone |-> "z", apartment_pct |-> 100])>>),
     List(<<Dict([apartment_pct |-> 50, detached_pct |-> 30,
                  terraced_pct |-> 20])>>),
     List(<<Dict(RawHousing("z", <<50, 30, 10>>))>>),
     Integer(3)}

LanduseSections ==
    {List(<<Dict(RawLanduse("0_1km", 100)), Dict(RawLanduse("1_2km", 50))>>),
     List(<<Dict([zone |-> "z"])>>),
     List(<<Dict(<< >>)>>),
     List(<<Dict(RawLanduse("z", 150))>>),
     List(<<Str("z")>>)}

HouseholdSections ==
    {List(<<Dict(RawHousehold("0_1km", <<40, 20, 40>>))>>),
     List(<<Dict([zone |-> "z"])>>),
     NoneType}

ResidentsSections ==
    {List(<<Dict([zone |-> "1_2km", residents_per_grid |-> 30]),
            Dict([zone |-> "0_1km", residents_per_grid |-> 80])>>),
     List(<<Dict([zone |-> "z"])>>)}

UnitSizeSections ==
    {List(<<Dict([zone |-> "0_1km", min_size |-> 40, max_size |-> 90])>>),
     List(<<Dict([min_size |-> 40])>>)}

\* a dict of the keys that are given a section (Absent: the key is left out)
Absent == [type |-> "absent"]

Sections(z, h, l, hh, r, u) ==
    LET all == [zones |-> z, housing_rules |-> h, landuse_rules |-> l,
                household_rules |-> hh, residents_rules |-> r,
                unit_size_rules |-> u]
    IN  Dict([key \in {k \in DOMAIN all : all[k] # Absent} |-> all[key]])

\* rule files: absent, empty, not a dict at the top, and dicts of sections
RuleFiles ==
    {[exists |-> FALSE]}
    \cup {[exists |-> TRUE, data |-> d] :
            d \in {NoneType, Str("zones"), List(<<Dict(Zone0)>>)}}
    \cup {[exists |-> TRUE, data |-> Sections(z, h, l, hh, r, u)] :
            z \in ZoneSections \cup {Absent},
            h \in HousingSections \cup {Absent},
            l \in LanduseSections \cup {Absent},
            hh \in HouseholdSections \cup {Absent},
            r \in ResidentsSections \cup {Absent},
            u \in UnitSizeSections \cup {Absent}}

InitLoad ==
    /\ PipelineIdle
    /\ call \in {[op |-> o, file |-> f] :
                    o \in {"load_from_yaml", "load_rules_from_yaml"},
                    f \in RuleFiles}
    /\ ret = None

\* RuleParser().load_from_yaml(filepath)
CallLoadFromYaml ==
    /\ call.op = "load_from_yaml" /\ ret = None
    /\ ret' = Some(load_from_yaml(call.file))
    /\ UNCHANGED <<pipevars, call>>

\* load_rules_from_yaml(yaml_path)
CallLoadRulesFromYaml ==
    /\ call.op = "load_rules_from_yaml" /\ ret = None
    /\ ret' = Some(load_rules_from_yaml(call.file))
    /\ UNCHANGED <<pipevars, call>>

NextLoad == CallLoadFromYaml \/ CallLoadRulesFromYaml

SpecLoad == InitLoad /\ [][NextLoad]_vars

-----------------------------------------------------------------------------
(* Direct calls of the feature classification *)

\* rule documents of the zones "0_1km" and "1_2km" with rules of every kind
\* for both zones, for one zone, or for none
FeatureDocuments ==
    {[zones |-> <<Zone0, Zone1>>,
      housing_rules |-> h, landuse_rules |-> l, household_rules |-> hh,
      residents_rules |-> r, unit_size_rules |-> u] :
        h \in {<<RawHousing("0_1km", <<50, 30, 20>>),
                 RawHousing("1_2km", <<0, 50, 50>>)>>,
               <<RawHousing("1_2km", <<100, 0, 0>>)>>,
               << >>},
        l \in {<<RawLanduse("0_1km", 100), RawLanduse("1_2km", 50)>>,
               <<RawLanduse("0_1km", 0), RawLanduse("1_2km", 100)>>,
               <<RawLanduse("0_1km", 50)>>},
        hh \in {<< >>,
                <<RawHousehold("0_1km", <<40, 20, 40>>),
                  RawHousehold("1_2km", <<0, 100, 0>>)>>},
        r \in {<< >>,
               <<[zone |-> "0_1km", residents_per_grid |-> 80],
                 [zone |-> "1_2km", residents_per_grid |-> 30]>>},
        u \in {<< >>,
               <<[zone |-> "0_1km", min_size |-> 40, max_size |-> 90],
                 [zone |-> "1_2km", min_size |-> 80, max_size |-> 160]>>}}

\* footprint areas in square metres
FootprintAreas == {5000, 20000}

InitFeature ==
    /\ PipelineIdle
    /\ call \in {[op |-> "classify_feature",
                  rules |-> load_from_yaml(RuleFile(doc)),
                  distance |-> d, footprint_area |-> a,
                  rng |-> [state |-> state, draws |-> 0]] :
                    doc \in FeatureDocuments,
                    d \in {0, Metres(1000) - 1, Metres(1000), Metres(1500),
                           Metres(2000)},
                    a \in FootprintAreas,
                    state \in 0..(RngMod - 1)}
    /\ ret = None

\* the classification of one feature of process_buildings
CallClassifyFeature ==
    /\ call.op = "classify_feature" /\ ret = None
    /\ ret' = Some(classify_feature(call.rules, call.distance,
                                    call.footprint_area, call.rng))
    /\ UNCHANGED <<pipevars, call>>

NextFeature == CallClassifyFeature

SpecFeature == InitFeature /\ [][NextFeature]_vars

-----------------------------------------------------------------------------
(* Claims about the data model *)

\* indices of the zones of zs whose interval [min, max) holds d
Hits(zs, d) ==
    {i \in 1..Len(zs) : zs[i].min_distance <= d /\ d < zs[i].max_distance}

Least(S) == CHOOSE i \in S : \A j \in S : i <= j

\* C1: get_zone(d) returns the first zone, in stored order, with
\* min_distance <= d < max_distance, and None when no zone has it; for
\* [0,1000), [1000,2000), [2000,5000): 999.999 gives the first zone, 1000.0
\* the second, 5000.0 None; of two overlapping zones the earlier one wins.
C1_ZoneResolution ==
    (call # None /\ call.op = "get_zone" /\ ret # None) =>
        LET zs == call.zones
            d == call.distance
            hits == Hits(zs, d)
        IN  /\ hits = {} => ret[1] = None
            /\ hits # {} => ret[1] = zs[Least(hits)]
            /\ zs = <<Zone0, Zone1, Zone2>> =>
                  /\ d = Metres(1000) - 1 => ret[1] = Zone0
                  /\ d = Metres(1000) => ret[1] = Zone1
                  /\ d = Metres(5000) => ret[1] = None
            /\ (zs = <<ZoneWide, Zone0, Zone1>> /\ d = Metres(1000)) =>
                  ret[1] = ZoneWide

C1_Witness ==
    /\ call # None /\ call.op = "get_zone" /\ ret # None
    /\ call.zones = <<Zone0, Zone1, Zone2>>
    /\ call.distance = Metres(1000)
    /\ ret[1] = Zone1

\* C2: HousingRule(...) and HouseholdRule(...) raise ValueError exactly
\* when the sum of the three percentages is outside [0.99, 1.01];
\* (0.5, 0.3, 0.1) raises, (0.5, 0.3, 0.2) yields the rule; a call that
\* raises yields no rule object.
C2_PercentageSum ==
    (call # None /\ call.op \in {"HousingRule", "HouseholdRule"}
                /\ ret # None) =>
        LET p == call.pcts
            sum == p[1] + p[2] + p[3]
            failed == ret[1] = ValueError
        IN  /\ failed <=> (sum < 99 \/ sum > 101)
            /\ ~failed =>
                  /\ ret[1].zone = call.zone
                  /\ call.op = "HousingRule" =>
                        <<ret[1].apartment_pct, ret[1].detached_pct,
                          ret[1].terraced_pct>> = p
                  /\ call.op = "HouseholdRule" =>
                        <<ret[1].single_person_pct, ret[1].single_parent_pct,
                          ret[1].two_parent_pct>> = p
            /\ failed => "zone" \notin DOMAIN ret[1]
            /\ p = <<50, 30, 10>> => failed
            /\ p = <<50, 30, 20>> => ~failed

C2_Witness ==
    /\ call # None /\ call.op = "HousingRule" /\ ret # None
    /\ call.pcts = <<50, 30, 10>>
    /\ ret[1] = ValueError

\* C3: LanduseRule(...) raises ValueError exactly when residential_pct < 0.0
\* or residential_pct > 1.0; 0.0 and 1.0 are accepted.
C3_LanduseBounds ==
    (call # None /\ call.op = "LanduseRule" /\ ret # None) =>
        LET r == call.pcts[1]
            failed == ret[1] = ValueError
        IN  /\ failed <=> (r < 0 \/ r > 100)
            /\ ~failed => ret[1] = [zone |-> call.zone, residential_pct |-> r]
            /\ r \in {0, 100} => ~failed

C3_Witness ==
    /\ call # None /\ call.op = "LanduseRule" /\ ret # None
    /\ call.pcts[1] = 100
    /\ ret[1] = [zone |-> "z", residential_pct |-> 100]

-----------------------------------------------------------------------------
(* Claims about the preprocessing run *)

\* the rule document holds a record that violates its numeric invariant
HoldsInvalidRecord(doc) ==
    LET hs == Get(doc, "housing_rules", << >>)
        ls == Get(doc, "landuse_rules", << >>)
        hh == Get(doc, "household_rules", << >>)
    IN  \/ \E i \in 1..Len(hs) :
              LET t == hs[i].apartment_pct + hs[i].detached_pct
                         + hs[i].terraced_pct
              IN  t < 99 \/ t > 101
        \/ \E i \in 1..Len(ls) :
              ls[i].residential_pct < 0 \/ ls[i].residential_pct > 100
        \/ \E i \in 1..Len(hh) :
              LET t == hh[i].single_person_pct + hh[i].single_parent_pct
                         + hh[i].two_parent_pct
              IN  t < 99 \/ t > 101

\* C4: when a record of the rule document violates its numeric invariant,
\* no RuleSet is ever produced (none holding only the valid records), and
\* no cell is classified, no draw made and nothing written: the run is at
\* most at the ValueError that left load_from_yaml.
C4_FailFast ==
    HoldsInvalidRecord(yaml) =>
        /\ rules = None
        /\ rng = None
        /\ building_grid = None /\ zone_grid = None /\ stats = None
        /\ trace = None
        /\ output = None
        /\ pc \in {"main", "load_rules", "ValueError in load_rules"}

C4_Witness ==
    /\ pc = "ValueError in load_rules"
    /\ yaml.housing_rules = <<RawHousing("0_1km", <<50, 30, 20>>),
                              RawHousing("1_2km", <<50, 30, 10>>)>>
    /\ yaml.landuse_rules = <<RawLanduse("0_1km", 50)>>
    /\ rules = None /\ output = None

\* the cell the loop is about to visit, and what the rules hold for it
AtCell == pc = "loop" /\ cursor < Rows * Cols

CurRow == cursor \div Cols

CurCol == cursor % Cols

CurHits == Hits(rules.zones, CellDistance(CurRow, CurCol, cell_size, center))

CurZoneName == rules.zones[Least(CurHits)].name

HasRule(rule_list, zone_name) ==
    \E i \in 1..Len(rule_list) : rule_list[i].zone = zone_name

\* C5: a cell whose distance matches no zone gets building class 99 and
\* zone label 99, changes none of by_zone, by_type, by_zone_and_type and
\* takes no draw from the generator.
C5_Sentinel ==
    [][(AtCell /\ CurHits = {}) =>
         /\ building_grid'.data[<<CurRow, CurCol>>] = 99
         /\ zone_grid'.data[<<CurRow, CurCol>>] = 99
         /\ stats' = stats
         /\ rng' = rng
         /\ cursor' = cursor + 1]_vars

C5_Witness ==
    /\ pc = "done"
    /\ \E i \in 1..Len(trace) :
          /\ Hits(rules.zones,
                  CellDistance(trace[i].row, trace[i].col, cell_size,
                               center)) = {}
          /\ output.template.building_class.data[
                 <<trace[i].row, trace[i].col>>] = 99
    /\ "z" \in DOMAIN stats.by_zone

\* C6: a cell in a zone that has no HousingRule, or no LanduseRule, gets
\* building class 99, changes no statistics and takes no draw, whatever the
\* other rule says.
C6_SilentSkip ==
    [][(/\ AtCell
        /\ CurHits # {}
        /\ \/ ~HasRule(rules.housing_rules, CurZoneName)
           \/ ~HasRule(rules.landuse_rules, CurZoneName)) =>
         /\ building_grid'.data[<<CurRow, CurCol>>] = 99
         /\ stats' = stats
         /\ rng' = rng
         /\ cursor' = cursor + 1]_vars

\* a finished run of a zone with no HousingRule and residential_pct = 1.0
C6_Witness ==
    /\ pc = "done"
    /\ rules.zones = <<Zone("z", 0, Metres(1000))>>
    /\ rules.housing_rules = << >>
    /\ rules.landuse_rules = <<[zone |-> "z", residential_pct |-> 100]>>
    /\ Len(trace) = 4
    /\ \A c \in DOMAIN building_grid.data : building_grid.data[c] = 99
    /\ stats.by_zone = << >>
    /\ rng.draws = 0

\* the fixed table of building-class codes
CodeOf(building_type) ==
    CASE building_type = "apartment" -> 14
      [] building_type = "detached" -> 17
      [] building_type = "terraced" -> 22
      [] building_type = "none" -> 99

\* C7: every cell the loop has visited holds 14, 17, 22 or 99: the code of
\* the type counted for it when it reached the sampling step, 99 when it
\* did not; at the end that is every cell of the saved building_class.
C7_ClassCodes ==
    (pc \in {"loop", "done"}) =>
        /\ \A i \in 1..Len(trace) :
              LET code == building_grid.data[<<trace[i].row, trace[i].col>>]
              IN  /\ code \in {14, 17, 22, 99}
                  /\ code = IF trace[i].building_type = None THEN 99
                            ELSE CodeOf(trace[i].building_type[1])
        /\ pc = "done" =>
              /\ {<<trace[i].row, trace[i].col>> : i \in 1..Len(trace)}
                    = DOMAIN template.building_class.data
              /\ output.template.building_class = building_grid

C7_Witness ==
    /\ pc = "done"
    /\ \E i, j, k \in 1..Len(trace) :
          /\ trace[i].building_type = Some("detached")
          /\ trace[j].building_type = Some("terraced")
          /\ trace[k].building_type = Some("none")
          /\ template.building_class.data[<<trace[i].row, trace[i].col>>]
                \notin {14, 17, 22, 99}
          /\ building_grid.data[<<trace[i].row, trace[i].col>>] = 17

\* C8: the second of two runs with one seed, one rule document and one
\* template ends with the building classes, the zone labels and the
\* statistics of the first.
C8_Determinism ==
    (pc = "done" /\ run1 # None) => output = run1

C8_Witness ==
    /\ pc = "done" /\ run1 # None
    /\ output = run1
    /\ "terraced" \in DOMAIN output.stats.by_type
    /\ "none" \in DOMAIN output.stats.by_type

\* C9: with a RuleSet that construction accepted, grid classification
\* ends without raising an error.
C9_NoClassificationError ==
    rules # None => pc # "ValueError in modify_template"

\* C10: 2x2 grid, cell size 100, center marker at (0,0), zone "z" =
\* [0,1000), HousingRule (1.0, 0.0, 0.0), residential_pct 1.0: every cell
\* ends with class 14 and with the zone label configured for "z", which is
\* not the unknown label 99; by_zone["z"] = 4 and by_type["apartment"] = 4.
Scenario10 ==
    /\ yaml = [zones |-> <<Zone("z", 0, Metres(1000))>>,
               housing_rules |-> <<RawHousing("z", <<100, 0, 0>>)>>,
               landuse_rules |-> <<RawLanduse("z", 100)>>]
    /\ template.building_class.shape = <<2, 2>>
    /\ template.city_center =
          Array(2, 2, [c \in Cells(2, 2) |->
                          IF c = <<0, 0>> THEN 1 ELSE 0])
    /\ cell_size = Metres(100)

C10_EndToEnd ==
    (Scenario10 /\ pc = "done") =>
        /\ \A c \in Cells(2, 2) :
              /\ output.template.building_class.data[c] = 14
              /\ "z" \in DOMAIN ZONE_IDS
              /\ output.zones.zone_grid.data[c] = ZONE_IDS["z"]
              /\ output.zones.zone_grid.data[c] # 99
        /\ output.stats.by_zone = ("z" :> 4)
        /\ output.stats.by_type = ("apartment" :> 4)

\* the zones that hold the cell of the i-th loop pass, and its zone label
TraceHits(i) ==
    Hits(rules.zones,
         CellDistance(trace[i].row, trace[i].col, cell_size, center))

TraceLabel(i) == zone_grid.data[<<trace[i].row, trace[i].col>>]

\* C11: a visited cell's zone label is 99 if and only if no zone matched
\* its distance (so it is there, not 99, also when the zone's HousingRule
\* or LanduseRule is absent), and two visited cells resolved to zones of
\* different names carry different labels.
C11_ZoneLabels ==
    (pc \in {"loop", "done"}) =>
        /\ \A i \in 1..Len(trace) :
              (TraceLabel(i) = 99) <=> (TraceHits(i) = {})
        /\ \A i, j \in 1..Len(trace) :
              (/\ TraceHits(i) # {} /\ TraceHits(j) # {}
               /\ rules.zones[Least(TraceHits(i))].name
                     # rules.zones[Least(TraceHits(j))].name)
                 => TraceLabel(i) # TraceLabel(j)

\* the sum of the counts of a dictionary
RECURSIVE DictSum(_)
DictSum(d) ==
    IF DOMAIN d = {} THEN 0
    ELSE LET k == CHOOSE x \in DOMAIN d : TRUE
         IN  d[k] + DictSum([x \in DOMAIN d \ {k} |-> d[x]])

\* the loop passes that reached the sampling step, and the zone of a pass
Sampled == {i \in 1..Len(trace) : trace[i].building_type # None}

TraceZone(i) == rules.zones[Least(TraceHits(i))].name

\* C12: at every point of the loop, by_zone[z], by_type[t] and
\* by_zone_and_type[z][t] count the passes that reached the sampling step
\* with zone z, with type t and with both; the sums of by_zone and of
\* by_type are the number of those passes, at most total_cells = rows*cols;
\* by_zone[z] is the sum of by_zone_and_type[z].
C12_StatsConsistency ==
    (pc \in {"loop", "done", "ValueError in modify_template"}) =>
        /\ DOMAIN stats.by_zone = {TraceZone(i) : i \in Sampled}
        /\ DOMAIN stats.by_type = {trace[i].building_type[1] : i \in Sampled}
        /\ DOMAIN stats.by_zone_and_type = DOMAIN stats.by_zone
        /\ \A z \in DOMAIN stats.by_zone :
              /\ stats.by_zone[z]
                    = Cardinality({i \in Sampled : TraceZone(i) = z})
              /\ stats.by_zone[z] = DictSum(stats.by_zone_and_type[z])
              /\ \A t \in DOMAIN stats.by_zone_and_type[z] :
                    stats.by_zone_and_type[z][t]
                       = Cardinality({i \in Sampled :
                                        /\ TraceZone(i) = z
                                        /\ trace[i].building_type[1] = t})
        /\ \A t \in DOMAIN stats.by_type :
              stats.by_type[t]
                 = Cardinality({i \in Sampled :
                                  trace[i].building_type[1] = t})
        /\ DictSum(stats.by_zone) = Cardinality(Sampled)
        /\ DictSum(stats.by_type) = Cardinality(Sampled)
        /\ Cardinality(Sampled) <= stats.total_cells
        /\ stats.total_cells = Rows * Cols

\* a finished run that counted two types in one zone and skipped a cell
C12_Witness ==
    /\ pc = "done"
    /\ Cardinality(Sampled) < stats.total_cells
    /\ \E z \in DOMAIN stats.by_zone :
          /\ stats.by_zone[z] = 3
          /\ Cardinality(DOMAIN stats.by_zone_and_type[z]) = 2

\* C16: the saved template holds the three grids of the input, in the
\* input's shape; its cluster_street and its city_center equal the input's
\* cell for cell, so that only building_class may differ; the saved zone
\* grid has the shape of building_class and comes with the same
\* city_center. The street grid is never written during the loop.
C16_Frame ==
    /\ (pc \in {"loop", "done", "ValueError in modify_template"}) =>
          /\ street_grid = template.cluster_street
          /\ building_grid.shape = template.building_class.shape
          /\ zone_grid.shape = building_grid.shape
    /\ (pc = "done") =>
          /\ DOMAIN output.template
                = {"building_class", "cluster_street", "city_center"}
          /\ output.template.building_class.shape
                = template.building_class.shape
          /\ DOMAIN output.template.building_class.data
                = DOMAIN template.building_class.data
          /\ output.template.cluster_street = template.cluster_street
          /\ output.template.city_center = template.city_center
          /\ output.zones.zone_grid.shape
                = output.template.building_class.shape
          /\ DOMAIN output.zones.zone_grid.data
                = DOMAIN output.template.building_class.data
          /\ output.zones.city_center = template.city_center

\* a saved 2x2 template whose building classes all changed, with streets
\* and a center marker in the input
C16_Witness ==
    /\ pc = "done"
    /\ template.building_class.shape = <<2, 2>>
    /\ \A c \in Cells(2, 2) :
          output.template.building_class.data[c]
             # template.building_class.data[c]
    /\ \E c \in Cells(2, 2) : template.cluster_street.data[c] = 1
    /\ template.city_center.data[<<1, 0>>] = 1
    /\ output.template.cluster_street.data[<<0, 1>>] = 1

\* the residential_pct of the LanduseRule found for the cell about to be
\* visited
CurResidentialPct ==
    LET ls == rules.landuse_rules
        i == Least({k \in 1..Len(ls) : ls[k].zone = CurZoneName})
    IN  ls[i].residential_pct

\* the cell about to be visited has a zone, a HousingRule and a LanduseRule
ReachesSampling ==
    /\ AtCell
    /\ CurHits # {}
    /\ HasRule(rules.housing_rules, CurZoneName)
    /\ HasRule(rules.landuse_rules, CurZoneName)

\* C18: the pass of a cell that has a zone, a HousingRule and a LanduseRule
\* takes the next value of the stream as its uniform draw and, after it,
\* one more value for the building type if and only if the uniform value is
\* below residential_pct: two values consumed for a residential cell, one
\* otherwise.
C18_DrawDiscipline ==
    [][ReachesSampling =>
          IF rng.state * 100 < CurResidentialPct * RngMod
          THEN rng' = Random(Random(rng).rng).rng
          ELSE rng' = Random(rng).rng]_vars

\* C19: the loop visits the cells in row-major order, each once (the i-th
\* pass is that of cell ((i-1) div cols, (i-1) mod cols)), and the pass has
\* ended only after rows*cols visits.
C19_RowMajorPass ==
    /\ (pc \in {"loop", "done", "ValueError in modify_template"}) =>
          /\ Len(trace) = cursor
          /\ \A i \in 1..Len(trace) :
                /\ trace[i].row = (i - 1) \div Cols
                /\ trace[i].col = (i - 1) % Cols
    /\ (pc \in {"done", "ValueError in modify_template"}) =>
          /\ Len(trace) = Rows * Cols
          /\ {<<trace[i].row, trace[i].col>> : i \in 1..Len(trace)}
                = Cells(Rows, Cols)

\* the marked cells of the input's city_center grid
Marked == {c \in DOMAIN template.city_center.data :
              template.city_center.data[c] = 1}

\* the marked cell that comes first in row-major order
FirstMarked ==
    CHOOSE m \in Marked :
        \A c \in Marked : m[1] * Cols + m[2] <= c[1] * Cols + c[2]

\* d (whole metres, in millimetres) is the Euclidean distance of the points
\* p and q rounded down: d^2 <= |p - q|^2 < (d + 1 m)^2
IsEuclidean(d, p, q) ==
    LET dx == (p[1] - q[1]) \div 1000
        dy == (p[2] - q[2]) \div 1000
        m == d \div 1000
    IN  /\ d = Metres(m) /\ m >= 0
        /\ m * m <= dx * dx + dy * dy
        /\ dx * dx + dy * dy < (m + 1) * (m + 1)

\* C20: with a marked cell the center is (col*cell_size, row*cell_size) of
\* the first marked cell in row-major order, and that cell's distance is 0;
\* with none it is (cols*cell_size/2, rows*cell_size/2); the distance of
\* every cell is the Euclidean distance of (col*cell_size, row*cell_size)
\* and the center.
C20_ReferenceCenter ==
    (pc \in {"loop", "done", "ValueError in modify_template"}) =>
        /\ Marked # {} =>
              /\ center = <<FirstMarked[2] * cell_size,
                            FirstMarked[1] * cell_size>>
              /\ CellDistance(FirstMarked[1], FirstMarked[2], cell_size,
                              center) = 0
        /\ Marked = {} =>
              /\ 2 * center[1] = Cols * cell_size
              /\ 2 * center[2] = Rows * cell_size
        /\ \A c \in Cells(Rows, Cols) :
              IsEuclidean(CellDistance(c[1], c[2], cell_size, center),
                          <<c[2] * cell_size, c[1] * cell_size>>, center)

\* a finished run whose center grid marks (0,1) and (1,0): the center is
\* that of (0,1), and the cell (1,0) lies 1414 m from it
C20_Witness ==
    /\ pc = "done"
    /\ Marked = {<<0, 1>>, <<1, 0>>}
    /\ cell_size = Metres(1000)
    /\ center = <<Metres(1000), 0>>
    /\ CellDistance(1, 0, cell_size, center) = Metres(1414)
    /\ CellDistance(0, 1, cell_size, center) = 0

\* C21: no step of modify_template (reading the template, a pass of the
\* loop with its zone resolution, rule lookups, draws and counting, the
\* saving) changes the RuleSet: its zones and its rule lists stay as they
\* were constructed; nor does it change the input template, the cell size
\* or the center. What a pass changes is among the generator, the two
\* grids and the statistics.
C21_RuleSetReadOnly ==
    [][(pc \in {"modify_template", "loop"}) =>
          /\ rules' = rules
          /\ template' = template /\ cell_size' = cell_size
          /\ pc = "loop" =>
                (center' = center /\ street_grid' = street_grid)]_vars

\* a finished run that resolved zones, found rules, drew and counted, with
\* the RuleSet still the one that was loaded
C21_Witness ==
    /\ pc = "done"
    /\ rules = load_from_yaml(RuleFile(yaml))
    /\ Len(rules.zones) = 2 /\ Len(rules.housing_rules) = 2
    /\ Len(rules.landuse_rules) = 2
    /\ rng.draws >= 4
    /\ Cardinality(DOMAIN stats.by_zone) = 2

\* the percentage that the HousingRule found for a zone gives a type
HousingPct(zone_name, building_type) ==
    LET hs == rules.housing_rules
        h == hs[Least({k \in 1..Len(hs) : hs[k].zone = zone_name})]
    IN  CASE building_type = "apartment" -> h.apartment_pct
          [] building_type = "detached" -> h.detached_pct
          [] building_type = "terraced" -> h.terraced_pct

\* the uniform draw of the cell about to be visited is below its zone's
\* residential_pct
DrawsResidential == rng.state * 100 < CurResidentialPct * RngMod

\* C22: the pass of a residential cell that samples a type counts and
\* assigns one of apartment, detached, terraced, never "none", and one to
\* which the zone's HousingRule gives a percentage above 0; so the types
\* that by_zone_and_type[zone] counts besides "none" all have a positive
\* percentage in the zone's HousingRule.
C22_CategoricalSupport ==
    [][(pc = "loop") =>
          /\ (ReachesSampling /\ DrawsResidential /\ pc' = "loop") =>
                LET t == trace'[cursor + 1].building_type[1]
                IN  /\ t \in {"apartment", "detached", "terraced"}
                    /\ HousingPct(CurZoneName, t) > 0
                    /\ building_grid'.data[<<CurRow, CurCol>>]
                          = BUILDING_CLASSES[t]
                    /\ t \in DOMAIN stats'.by_zone_and_type[CurZoneName]
          /\ \A z \in DOMAIN stats'.by_zone_and_type :
                \A t \in DOMAIN stats'.by_zone_and_type[z] :
                   \/ t = "none"
                   \/ /\ t \in {"apartment", "detached", "terraced"}
                      /\ HousingPct(z, t) > 0]_vars

\* a finished run of the zone "1_2km" with HousingRule (0.0, 0.5, 0.5)
\* whose uniform value 0 went to a type draw: detached and terraced are
\* counted, apartment is not
C22_Witness ==
    /\ pc = "done"
    /\ \E i \in 1..Len(rules.housing_rules) :
          /\ rules.housing_rules[i].apartment_pct = 0
          /\ rules.housing_rules[i].detached_pct = 50
          /\ LET z == rules.housing_rules[i].zone
             IN  /\ z \in DOMAIN stats.by_zone_and_type
                 /\ "detached" \in DOMAIN stats.by_zone_and_type[z]
                 /\ "terraced" \in DOMAIN stats.by_zone_and_type[z]
                 /\ "apartment" \notin DOMAIN stats.by_zone_and_type[z]

\* the count of type "none" in the zone of the cell about to be visited
NoneCount(st) ==
    Get(Get(st.by_zone_and_type, CurZoneName, << >>), "none", 0)

\* C23: with residential_pct = 1.0 the pass of a cell that reaches
\* sampling is residential whatever the uniform value: it does not count
\* "none" and, when it samples a type, assigns one of the classes 14, 17,
\* 22 after a second draw. With residential_pct = 0.0 it is never
\* residential: it counts "none", assigns class 99 and takes the uniform
\* draw only.
C23_ResidentialExtremes ==
    [][ReachesSampling =>
          /\ CurResidentialPct = 100 =>
                /\ NoneCount(stats') = NoneCount(stats)
                /\ pc' = "loop" =>
                      /\ trace'[cursor + 1].building_type[1]
                            \in {"apartment", "detached", "terraced"}
                      /\ building_grid'.data[<<CurRow, CurCol>>]
                            \in {14, 17, 22}
                      /\ rng'.draws = rng.draws + 2
          /\ CurResidentialPct = 0 =>
                /\ pc' = "loop"
                /\ trace'[cursor + 1].building_type = Some("none")
                /\ NoneCount(stats') = NoneCount(stats) + 1
                /\ stats'.by_zone_and_type[CurZoneName]
                      = ("none" :> NoneCount(stats'))
                /\ building_grid'.data[<<CurRow, CurCol>>] = 99
                /\ rng' = Random(rng).rng]_vars

\* a finished run of four cells in a zone with residential_pct = 0.0 whose
\* first uniform value was 0
C23_Witness ==
    /\ pc = "done"
    /\ random_seed = Some(2)
    /\ rules.landuse_rules = <<[zone |-> "z", residential_pct |-> 0]>>
    /\ rules.housing_rules
          = <<[zone |-> "z", apartment_pct |-> 100, detached_pct |-> 0,
               terraced_pct |-> 0]>>
    /\ stats.by_zone_and_type = ("z" :> ("none" :> 4))
    /\ \A c \in DOMAIN building_grid.data : building_grid.data[c] = 99
    /\ rng.draws = 4

-----------------------------------------------------------------------------
(* Claims about the loaders *)

RuleKinds ==
    {"zones", "housing_rules", "landuse_rules", "household_rules",
     "residents_rules", "unit_size_rules"}

\* the file holds nothing, or a dict whose sections are lists of dicts
WellFormed(file) ==
    /\ file.exists
    /\ \/ file.data.type = "NoneType"
       \/ /\ file.data.type = "dict"
          /\ \A key \in DOMAIN file.data.value :
                LET section == file.data.value[key]
                IN  /\ section.type = "list"
                    /\ \A i \in 1..Len(section.value) :
                          section.value[i].type = "dict"

\* the raw records of a section of a well-formed file
RawRecords(file, key) ==
    IF file.data.type = "NoneType" THEN << >>
    ELSE IF key \notin DOMAIN file.data.value THEN << >>
    ELSE [i \in 1..Len(file.data.value[key].value) |->
             file.data.value[key].value[i].value]

\* the sum of the fields of a raw record that are there
RECURSIVE FieldSum(_, _)
FieldSum(rec, fields) ==
    IF fields = {} THEN 0
    ELSE LET f == CHOOSE x \in fields : TRUE
         IN  (IF f \in DOMAIN rec THEN rec[f] ELSE 0)
                + FieldSum(rec, fields \ {f})

\* every record of a well-formed file satisfies its numeric invariant
AllValid(file) ==
    /\ \A i \in 1..Len(RawRecords(file, "housing_rules")) :
          FieldSum(RawRecords(file, "housing_rules")[i],
                   {"apartment_pct", "detached_pct", "terraced_pct"})
             \in 99..101
    /\ \A i \in 1..Len(RawRecords(file, "household_rules")) :
          FieldSum(RawRecords(file, "household_rules")[i],
                   {"single_person_pct", "single_parent_pct",
                    "two_parent_pct"})
             \in 99..101
    /\ \A i \in 1..Len(RawRecords(file, "landuse_rules")) :
          FieldSum(RawRecords(file, "landuse_rules")[i], {"residential_pct"})
             \in 0..100

Returned(op) == call.op = op /\ ret # None

DefaultOf(field) == IF field \in {"zone", "name"} THEN "" ELSE 0

\* C14: whichever loader reads it, a record that lacks a numeric field is
\* built with 0.0 for it and one that lacks the zone name with "", and is
\* then validated like any other: the load ends in ValueError when a
\* defaulted housing, household or landuse record violates its invariant
\* (a housing record with no percentage: sum 0), and otherwise returns the
\* objects with the defaults (a landuse record with no residential_pct:
\* 0.0).
C14_Defaults ==
    (/\ ret # None
     /\ WellFormed(call.file) /\ call.file.data.type = "dict") =>
        IF AllValid(call.file)
        THEN /\ ~Exception(ret[1])
             /\ \A kind \in DOMAIN ret[1] :
                   LET raw == RawRecords(call.file, kind)
                   IN  /\ Len(ret[1][kind]) = Len(raw)
                       /\ \A i \in 1..Len(raw) :
                             \A f \in DOMAIN ret[1][kind][i] :
                                ret[1][kind][i][f]
                                   = Get(raw[i], f, DefaultOf(f))
        ELSE ret[1] = ValueError

\* the rule file is absent, empty, or not a dict of lists of dicts
Malformed(file) ==
    \/ ~file.exists
    \/ file.data.type = "NoneType"
    \/ ~WellFormed(file)

\* C15: load_from_yaml of an absent or malformed rule file ends in an
\* exception of one kind, the kind an absent file gets, which is not the
\* ValueError of validation (also when a record of an earlier section is
\* invalid: the structure is rejected before any record is validated).
C15_ConfigError ==
    (Returned("load_from_yaml") /\ Malformed(call.file)) =>
        /\ Exception(ret[1])
        /\ ret[1] # ValueError
        /\ ret[1] = load_from_yaml([exists |-> FALSE])

-----------------------------------------------------------------------------
(* Claims about the feature classification *)

\* the zone of the called feature: the first whose interval holds it
FeatureHits == Hits(call.rules.zones, call.distance)

FeatureZoneName == call.rules.zones[Least(FeatureHits)].name

\* the feature is in no zone, or in a zone that lacks a HousingRule or a
\* LanduseRule, or the uniform draw is not below the zone's residential_pct
FeatureNotResidential ==
    \/ FeatureHits = {}
    \/ ~HasRule(call.rules.housing_rules, FeatureZoneName)
    \/ ~HasRule(call.rules.landuse_rules, FeatureZoneName)
    \/ \E i \in 1..Len(call.rules.landuse_rules) :
          /\ call.rules.landuse_rules[i].zone = FeatureZoneName
          /\ \A j \in 1..(i - 1) :
                call.rules.landuse_rules[j].zone # FeatureZoneName
          /\ call.rng.state * 100
                >= call.rules.landuse_rules[i].residential_pct * RngMod

\* C17: a feature in no zone, or in a zone without HousingRule or without
\* LanduseRule, or drawn non-residential, gets the record with
\* building_type "none", household_count 0, resident_count 0, unit_size 0
\* and no household_type.
C17_NonResidentialFeature ==
    (Returned("classify_feature") /\ FeatureNotResidential) =>
        /\ ~Exception(ret[1])
        /\ ret[1].record.building_type = "none"
        /\ ret[1].record.household_count = 0
        /\ ret[1].record.resident_count = 0
        /\ ret[1].record.unit_size = 0
        /\ ret[1].record.household_type = None

\* a feature of a zone that has every rule, drawn non-residential
C17_Witness ==
    /\ Returned("classify_feature")
    /\ FeatureHits # {}
    /\ HasRule(call.rules.housing_rules, FeatureZoneName)
    /\ HasRule(call.rules.landuse_rules, FeatureZoneName)
    /\ HasRule(call.rules.household_rules, FeatureZoneName)
    /\ HasRule(call.rules.residents_rules, FeatureZoneName)
    /\ HasRule(call.rules.unit_size_rules, FeatureZoneName)
    /\ FeatureNotResidential
    /\ ret[1].record = NonResidentialFeature(Some("1_2km"))
    /\ ret[1].rng.draws = 1

====
